---- MODULE Spec2Model ----
(***************************************************************************)
(* xrexpr: selection pushdown for xarray call chains.                      *)
(*                                                                         *)
(*   - LazyDatasetProxy (accessor.py): records operations, optimizes the   *)
(*     recorded chain with _optimize_ops and replays it in compute().      *)
(*   - SelectionPushdown (cst.py): libcst transformer that swaps           *)
(*     <base>.mean(..).isel/sel(..) call pairs.                            *)
(*                                                                         *)
(* Three specifications share the module:                                  *)
(*   SpecOpt    a chain is recorded, optimized, optimized again            *)
(*   SpecCst    a call chain is written and rewritten by the transformer   *)
(*   SpecProxy  proxies are derived from one base dataset and computed     *)
(***************************************************************************)
EXTENDS Naturals, Sequences, FiniteSets

VARIABLES
    chain,      \* SpecOpt: the recorded operation list (self._ops)
    out,        \* SpecOpt: _optimize_ops(chain)
    out2,       \* SpecOpt: _optimize_ops(out)
    pc,         \* SpecOpt: "record" | "optimized" | "reoptimized"
    expr,       \* SpecCst: the call chain <ds>.c1(..).c2(..)...
    result,     \* SpecCst: outcome of visiting expr with SelectionPushdown
    cpc,        \* SpecCst: "write" | "done"
    lists,      \* SpecProxy: heap of Python list objects (id -> contents)
    proxies,    \* SpecProxy: the proxies created so far
    realized    \* SpecProxy: the last realized dataset and the call that made it

vars == <<chain, out, out2, pc, expr, result, cpc, lists, proxies, realized>>

(***************************************************************************)
(* Bounds of the model.                                                    *)
(***************************************************************************)
MaxChain == 3       \* longest recorded chain in SpecOpt
MaxCalls == 4       \* longest call chain in SpecCst
MaxProxies == 4     \* proxies derived from the base dataset in SpecProxy

(***************************************************************************)
(* Values.  A Python dict with string keys is a total function over Keys   *)
(* whose absent keys map to Missing.  A positional argument is either a    *)
(* dict or a string.                                                       *)
(***************************************************************************)
Axes == {"time", "lat", "lon"}
Keys == Axes \cup {"dim"}
Missing == "<missing>"

EmptyDict == [k \in Keys |-> Missing]
Single(k, v) == [x \in Keys |-> IF x = k THEN v ELSE Missing]
KeysOf(d) == {k \in Keys : d[k] # Missing}

\* dict(d, **e) / d.update(e): entries of e overwrite those of d
Update(d, e) == [k \in Keys |-> IF e[k] # Missing THEN e[k] ELSE d[k]]

DictArg(d) == [isdict |-> TRUE, d |-> d, s |-> Missing]
StrArg(s) == [isdict |-> FALSE, d |-> EmptyDict, s |-> s]

\* Op = tuple[str, tuple, dict]
Op(name, args, kwargs) == [name |-> name, args |-> args, kwargs |-> kwargs]

AGGREGATIONS ==
    {"reduce", "count", "all", "any", "max", "min", "mean", "prod", "sum",
     "std", "var", "median", "cumsum", "cumprod"}

SELECTIONS == {"sel", "isel"}

(***************************************************************************)
(* LazyDatasetProxy._optimize_ops                                          *)
(***************************************************************************)
\* mutant: the positional mapping is ignored
decode_isel_args_kwonly(a, kw) == kw

decode_isel_args(a, kw) ==
    IF Len(a) = 1 /\ a[1].isdict THEN Update(a[1].d, kw) ELSE kw

decode_sel_args(a, kw) ==
    IF Len(a) = 1 /\ a[1].isdict THEN Update(a[1].d, kw) ELSE kw

\* j after `while j < len(ops) and ops[j][0] == name: j += 1`
RECURSIVE RunEnd(_, _, _)
RunEnd(ops, j, name) ==
    IF j <= Len(ops) /\ ops[j].name = name THEN RunEnd(ops, j + 1, name) ELSE j

\* merged after the updates of ops[i], ..., ops[j-1]
RECURSIVE MergedIsel(_, _, _)
MergedIsel(ops, i, j) ==
    IF j <= i THEN EmptyDict
    ELSE Update(MergedIsel(ops, i, j - 1),
                decode_isel_args(ops[j - 1].args, ops[j - 1].kwargs))

RECURSIVE MergedSel(_, _, _)
MergedSel(ops, i, j) ==
    IF j <= i THEN EmptyDict
    ELSE Update(MergedSel(ops, i, j - 1),
                decode_sel_args(ops[j - 1].args, ops[j - 1].kwargs))

\* red_dims: the dim keyword, else the first positional argument, normalised
red_dims(r_args, r_kwargs) ==
    IF r_kwargs["dim"] # Missing THEN {r_kwargs["dim"]}
    ELSE IF Len(r_args) >= 1
         THEN IF r_args[1].isdict THEN KeysOf(r_args[1].d) ELSE {r_args[1].s}
         ELSE {}

\* indexer of the isel that follows a reduction: the positional dict if there
\* is one, the keywords otherwise
indexer(isel_args, isel_kwargs) ==
    IF Len(isel_args) = 1 /\ isel_args[1].isdict
    THEN isel_args[1].d
    ELSE isel_kwargs

PushPattern(ops, i) ==
    /\ ops[i].name \in {"mean", "sum", "prod"}
    /\ i + 1 <= Len(ops)
    /\ ops[i + 1].name = "isel"

Reorderable(ops, i) ==
    KeysOf(indexer(ops[i + 1].args, ops[i + 1].kwargs))
        \cap red_dims(ops[i].args, ops[i].kwargs) = {}

\* the while loop: position i (1-based), output so far new_ops
RECURSIVE OptLoop(_, _, _)
OptLoop(ops, i, new_ops) ==
    IF i > Len(ops) THEN new_ops
    ELSE IF ops[i].name = "isel" THEN
        LET j == RunEnd(ops, i + 1, "isel")
        IN  OptLoop(ops, j,
                Append(new_ops,
                       Op("isel", <<DictArg(MergedIsel(ops, i, j))>>, EmptyDict)))
    ELSE IF ops[i].name = "sel" THEN
        LET j == RunEnd(ops, i + 1, "sel")
        IN  OptLoop(ops, j,
                Append(new_ops,
                       Op("sel", <<DictArg(MergedSel(ops, i, j))>>, EmptyDict)))
    ELSE IF PushPattern(ops, i) /\ Reorderable(ops, i) THEN
        OptLoop(ops, i + 2,
            new_ops \o
            << Op("isel",
                  <<DictArg(indexer(ops[i + 1].args, ops[i + 1].kwargs))>>,
                  EmptyDict),
               ops[i] >>)
    ELSE OptLoop(ops, i + 1, Append(new_ops, ops[i]))

_optimize_ops(ops) == OptLoop(ops, 1, <<>>)

(***************************************************************************)
(* The backing dataset, at its interface: the axes it still has, the       *)
(* index / label picked on each selected axis, the reductions applied and  *)
(* the item taken.  A selection or reduction over an axis the dataset no   *)
(* longer has fails.                                                       *)
(***************************************************************************)
BaseDs ==
    [ok |-> TRUE, dims |-> Axes, ipicked |-> EmptyDict, lpicked |-> EmptyDict,
     hist |-> <<>>, item |-> Missing]

FailDs ==
    [ok |-> FALSE, dims |-> {}, ipicked |-> EmptyDict, lpicked |-> EmptyDict,
     hist |-> <<>>, item |-> Missing]

\* Dataset.isel(indexers, **indexers_kwargs) with scalar indices
DsIsel(ds, args, kwargs) ==
    LET idx == IF Len(args) = 1 /\ args[1].isdict
               THEN Update(args[1].d, kwargs) ELSE kwargs
    IN  IF KeysOf(idx) \subseteq ds.dims
        THEN [ds EXCEPT !.dims = @ \ KeysOf(idx), !.ipicked = Update(@, idx)]
        ELSE FailDs

\* Dataset.sel(indexers, **indexers_kwargs) with scalar labels
DsSel(ds, args, kwargs) ==
    LET idx == IF Len(args) = 1 /\ args[1].isdict
               THEN Update(args[1].d, kwargs) ELSE kwargs
    IN  IF KeysOf(idx) \subseteq ds.dims
        THEN [ds EXCEPT !.dims = @ \ KeysOf(idx), !.lpicked = Update(@, idx)]
        ELSE FailDs

\* Dataset.<reduction>(dim=None, ...): no dim reduces over every axis
DsReduce(ds, name, args, kwargs) ==
    LET rd == IF kwargs["dim"] # Missing THEN {kwargs["dim"]}
              ELSE IF Len(args) >= 1 THEN {args[1].s}
              ELSE ds.dims
    IN  IF rd \subseteq ds.dims
        THEN [ds EXCEPT !.dims = @ \ rd,
                        !.hist = Append(@, [name |-> name, dims |-> rd])]
        ELSE FailDs

\* fn = getattr(ds, method); ds = fn(*args, **kwargs)
Dispatch(ds, op) ==
    IF op.name = "isel" THEN DsIsel(ds, op.args, op.kwargs)
    ELSE IF op.name = "sel" THEN DsSel(ds, op.args, op.kwargs)
    ELSE IF op.name \in AGGREGATIONS
         THEN DsReduce(ds, op.name, op.args, op.kwargs)
    ELSE ds

\* the replay loop of compute(): an exception propagates
RECURSIVE Replay(_, _)
Replay(ops, ds) ==
    IF Len(ops) = 0 \/ ~ds.ok THEN ds
    ELSE LET op == Head(ops)
         IN  IF op.name = "__getitem__"
             THEN Replay(Tail(ops), [ds EXCEPT !.item = op.args[1].s])
             ELSE IF op.name = "__call__"
             THEN Replay(Tail(ops), ds)
             ELSE Replay(Tail(ops), Dispatch(ds, op))

(***************************************************************************)
(* SpecOpt: operations are recorded one by one (LazyDatasetProxy._record), *)
(* the chain is optimized, and the optimized chain is optimized again.     *)
(***************************************************************************)
IselKw(a, v) == Op("isel", <<>>, Single(a, v))
IselPos(a, v) == Op("isel", <<DictArg(Single(a, v))>>, EmptyDict)
IselBoth(a, v, b, w) == Op("isel", <<DictArg(Single(a, v))>>, Single(b, w))
SelKw(a, v) == Op("sel", <<>>, Single(a, v))
SelPos(a, v) == Op("sel", <<DictArg(Single(a, v))>>, EmptyDict)
RedKw(name, a) == Op(name, <<>>, Single("dim", a))
RedPos(name, a) == Op(name, <<StrArg(a)>>, EmptyDict)
RedAll(name) == Op(name, <<>>, EmptyDict)

\* the operations a user records in SpecOpt
OptOps ==
    { IselKw("time", "0"), IselKw("time", "1"), IselKw("lat", "0"),
      IselPos("time", "0"), IselBoth("time", "0", "lat", "1"),
      IselBoth("lat", "0", "lat", "1"),
      SelKw("time", "0"), SelPos("lat", "1"),
      RedKw("mean", "lat"), RedKw("mean", "lon"), RedPos("mean", "time"),
      RedAll("mean"), RedKw("sum", "lat"), RedKw("prod", "time"),
      RedKw("max", "lat"),
      Op("load", <<>>, EmptyDict) }

cstIdle == /\ expr = <<>> /\ result = [ok |-> TRUE, tree |-> <<>>] /\ cpc = "idle"
proxyIdle ==
    /\ lists = <<>> /\ proxies = <<>> /\ realized = [via |-> "", value |-> FailDs]

InitOpt ==
    /\ chain = <<>>
    /\ out = <<>>
    /\ out2 = <<>>
    /\ pc = "record"
    /\ cstIdle
    /\ proxyIdle

\* proxy.<method>(*args, **kwargs): one more recorded operation
RecordOp ==
    /\ pc = "record"
    /\ Len(chain) < MaxChain
    /\ \E op \in OptOps : chain' = Append(chain, op)
    /\ UNCHANGED <<out, out2, pc, expr, result, cpc, lists, proxies, realized>>

\* ops = self._optimize_ops(list(self._ops))
Optimize ==
    /\ pc = "record"
    /\ out' = _optimize_ops(chain)
    /\ pc' = "optimized"
    /\ UNCHANGED <<chain, out2, expr, result, cpc, lists, proxies, realized>>

\* the optimizer applied to its own output
Reoptimize ==
    /\ pc = "optimized"
    /\ out2' = _optimize_ops(out)
    /\ pc' = "reoptimized"
    /\ UNCHANGED <<chain, out, expr, result, cpc, lists, proxies, realized>>

NextOpt == RecordOp \/ Optimize \/ Reoptimize

SpecOpt == InitOpt /\ [][NextOpt]_vars

(***************************************************************************)
(* SelectionPushdown (cst.py).  The expression is a method-call chain on a *)
(* base name: <ds>.c1(args).c2(args)...; a node of the tree is a prefix of *)
(* the chain.  A piece of source text is (q, body): body between two       *)
(* quotes q, or bare when q is Missing.                                    *)
(***************************************************************************)
Text(q, body) == [q |-> q, body |-> body]
Bare(body) == Text(Missing, body)
Arg(keyword, value) == [keyword |-> keyword, value |-> value]
Call(attr, args) == [attr |-> attr, args |-> args]

\* s.strip("'").strip('"') of a text whose body holds no quote
strip(s) == Bare(s.body)

Range(f) == {f[i] : i \in DOMAIN f}

\* mutant: the quotes of the dim literals are kept
check_valid_ordering_unstripped(mean_args, isel_args) ==
    LET mean_dims == {key.value : key \in Range(mean_args)}
        isel_dims == {Bare(key.keyword) :
                        key \in {a \in Range(isel_args) : a.keyword # Missing}}
    IN  mean_dims \cap isel_dims = {}

\* TRUE: returns None (reorderable); FALSE: raises InvalidExpressionError
_check_valid_ordering(mean_args, isel_args) ==
    LET mean_dims == {strip(key.value) : key \in Range(mean_args)}
        isel_dims == {Bare(key.keyword) :
                        key \in {a \in Range(isel_args) : a.keyword # Missing}}
    IN  mean_dims \cap isel_dims = {}

\* the case pattern of leave_Call: <base_val>.mean(mean_args).<selector>(isel_args)
Matches(node) ==
    LET n == Len(node)
    IN  /\ n >= 2
        /\ node[n - 1].attr = "mean"
        /\ node[n].attr \in {"isel", "sel"}

\* <base_val>.<selector>(isel_args).mean(mean_args)
swapped_node(node) ==
    LET n == Len(node)
    IN  SubSeq(node, 1, n - 2) \o <<node[n], node[n - 1]>>

Returned(tree) == [ok |-> TRUE, tree |-> tree]
Raised == [ok |-> FALSE, tree |-> <<>>]

\* mutant: the swapped node is returned without being visited again
leave_Call_once(updated_node) ==
    IF Matches(updated_node)
    THEN IF _check_valid_ordering(updated_node[Len(updated_node) - 1].args,
                                  updated_node[Len(updated_node)].args)
         THEN Returned(swapped_node(updated_node))
         ELSE Raised
    ELSE Returned(updated_node)

RECURSIVE visit(_)
RECURSIVE leave_Call(_)
leave_Call(updated_node) ==
    IF Matches(updated_node)
    THEN IF _check_valid_ordering(updated_node[Len(updated_node) - 1].args,
                                  updated_node[Len(updated_node)].args)
         THEN visit(swapped_node(updated_node))
         ELSE Raised
    ELSE Returned(updated_node)

\* node.visit(transformer): the children first, then leave_Call on the node
\* with its updated children; an exception propagates
visit(node) ==
    IF Len(node) = 0 THEN Returned(node)
    ELSE LET inner == visit(SubSeq(node, 1, Len(node) - 1))
         IN  IF inner.ok
             THEN leave_Call(Append(inner.tree, node[Len(node)]))
             ELSE Raised

(***************************************************************************)
(* SpecCst: a call chain is written call by call, then rewritten.          *)
(***************************************************************************)
DimCall(name, q, axis) == Call(name, <<Arg("dim", Text(q, axis))>>)
SelCall(name, axis, value) == Call(name, <<Arg(axis, Bare(value))>>)

\* the calls of the expressions in SpecCst
CstCalls ==
    { DimCall("mean", "\"", "lat"), DimCall("mean", "\"", "lon"),
      DimCall("mean", "'", "time"), DimCall("sum", "\"", "level"),
      SelCall("isel", "time", "slice(0, 3)"), SelCall("isel", "lat", "0"),
      SelCall("sel", "lon", "0"), SelCall("sel", "time", "0") }

optIdle == /\ chain = <<>> /\ out = <<>> /\ out2 = <<>> /\ pc = "idle"

InitCst ==
    /\ expr = <<>>
    /\ result = Returned(<<>>)
    /\ cpc = "write"
    /\ optIdle
    /\ proxyIdle

\* one more call at the end of the chain
WriteCall ==
    /\ cpc = "write"
    /\ Len(expr) < MaxCalls
    /\ \E c \in CstCalls : expr' = Append(expr, c)
    /\ UNCHANGED <<result, cpc, chain, out, out2, pc, lists, proxies, realized>>

\* tree.visit(SelectionPushdown())
Rewrite ==
    /\ cpc = "write"
    /\ result' = visit(expr)
    /\ cpc' = "done"
    /\ UNCHANGED <<expr, chain, out, out2, pc, lists, proxies, realized>>

NextCst == WriteCall \/ Rewrite

SpecCst == InitCst /\ [][NextCst]_vars

(***************************************************************************)
(* SpecProxy: proxies derived from one base dataset.  lists is the heap of *)
(* Python list objects; a proxy holds the id of its _ops list.  The fields *)
(* made, parent and op of a proxy are history: the contents its list had   *)
(* when the proxy was constructed, the receiver it was derived from and    *)
(* the operation recorded.                                                 *)
(***************************************************************************)
NoOp == Op("", <<>>, EmptyDict)

\* LazyDatasetProxy(base_ds, ops): self._ops = list(ops) if ops else []
\* (a new list object in both cases)
LazyDatasetProxy(w, ops, parent, op) ==
    LET copy == IF Len(ops) > 0 THEN ops ELSE <<>>
    IN  [lists |-> Append(w.lists, copy),
         proxies |-> Append(w.proxies,
                            [ops |-> Len(w.lists) + 1, made |-> copy,
                             parent |-> parent, op |-> op])]

\* mutant: the operation is appended to the receiver's own list
record_in_place(w, self, op) ==
    LET id == w.proxies[self].ops
        w1 == [w EXCEPT !.lists[id] = Append(@, op)]
    IN  LazyDatasetProxy(w1, w1.lists[id], self, op)

\* LazyDatasetProxy(self._base_ds, self._ops + [(method_name, args, kwargs)])
_record(w, self, op) ==
    LazyDatasetProxy(w, w.lists[w.proxies[self].ops] \o <<op>>, self, op)

\* compute(): ops = list(self._ops) and new_ops of _optimize_ops are new list
\* objects, local to the call; the replay reads new_ops
compute(w, self) ==
    LET h1 == Append(w.lists, w.lists[w.proxies[self].ops])
        ops == Len(h1)
        h2 == Append(h1, _optimize_ops(h1[ops]))
        new_ops == Len(h2)
    IN  [lists |-> SubSeq(h2, 1, Len(w.lists)),
         value |-> Replay(h2[new_ops], BaseDs)]

World == [lists |-> lists, proxies |-> proxies]

\* the methods recorded in SpecProxy and the keys indexed with
ProxyMethods == {IselKw("time", "0"), RedKw("mean", "lat")}
ItemKeys == {"temperature"}

\* LazierAccessor.__init__: self._proxy = LazyDatasetProxy(self._obj)
InitProxy ==
    /\ lists = LazyDatasetProxy([lists |-> <<>>, proxies |-> <<>>],
                                <<>>, 0, NoOp).lists
    /\ proxies = LazyDatasetProxy([lists |-> <<>>, proxies |-> <<>>],
                                  <<>>, 0, NoOp).proxies
    /\ realized = [via |-> "", value |-> FailDs]
    /\ optIdle
    /\ cstIdle

Recorded(w) ==
    /\ lists' = w.lists
    /\ proxies' = w.proxies
    /\ UNCHANGED <<realized, chain, out, out2, pc, expr, result, cpc>>

Realized(via, r) ==
    /\ realized' = [via |-> via, value |-> r.value]
    /\ lists' = r.lists
    /\ UNCHANGED <<proxies, chain, out, out2, pc, expr, result, cpc>>

\* proxy.<name>(*args, **kwargs) for a method name of the dataset
MethodCall ==
    /\ Len(proxies) < MaxProxies
    /\ \E self \in 1..Len(proxies), op \in ProxyMethods :
          Recorded(_record(World, self, op))

\* proxy[key]
GetItem ==
    /\ Len(proxies) < MaxProxies
    /\ \E self \in 1..Len(proxies), key \in ItemKeys :
          Recorded(_record(World, self, Op("__getitem__", <<StrArg(key)>>, EmptyDict)))

\* proxy()
CallProxy ==
    /\ Len(proxies) < MaxProxies
    /\ \E self \in 1..Len(proxies) :
          Recorded(_record(World, self, Op("__call__", <<>>, EmptyDict)))

\* proxy.compute()
Compute == \E self \in 1..Len(proxies) : Realized("compute", compute(World, self))

\* proxy.persist(): compute(), then ds.persist() of the realized dataset
Persist == \E self \in 1..Len(proxies) : Realized("persist", compute(World, self))

\* proxy.realize()
Realize == \E self \in 1..Len(proxies) : Realized("realize", compute(World, self))

\* proxy.<name> for a non-callable attribute: realized = self.compute()
GetAttribute == \E self \in 1..Len(proxies) : Realized("getattr", compute(World, self))

NextProxy ==
    MethodCall \/ GetItem \/ CallProxy \/ Compute \/ Persist \/ Realize \/ GetAttribute

SpecProxy == InitProxy /\ [][NextProxy]_vars

(***************************************************************************)
(* Notions the claims about the optimizer are stated in.                   *)
(***************************************************************************)
\* a selection's indexer: its positional mapping merged with its keywords,
\* keyword winning
SelIndexer(op) ==
    IF Len(op.args) = 1 /\ op.args[1].isdict
    THEN [k \in Keys |-> IF op.kwargs[k] # Missing THEN op.kwargs[k]
                         ELSE op.args[1].d[k]]
    ELSE op.kwargs

\* a reduction's removed axes: the dim keyword, else the first positional
\* argument, else none
RemovedAxes(op) ==
    IF op.kwargs["dim"] # Missing THEN {op.kwargs["dim"]}
    ELSE IF Len(op.args) >= 1 /\ ~op.args[1].isdict THEN {op.args[1].s}
    ELSE {}

\* the normal form of a selection: one positional mapping, no keywords
Normal(name, idx) == Op(name, <<DictArg(idx)>>, EmptyDict)

Optimized == pc \in {"optimized", "reoptimized"}

SameOutcome(a, b) == (~a.ok /\ ~b.ok) \/ (a.ok /\ b.ok /\ a = b)

\* the selections of a chain, in order, as (name, indexer)
RECURSIVE SelectionsOf(_)
SelectionsOf(ops) ==
    IF Len(ops) = 0 THEN <<>>
    ELSE IF Head(ops).name \in SELECTIONS
         THEN <<[name |-> Head(ops).name, idx |-> SelIndexer(Head(ops))]>>
              \o SelectionsOf(Tail(ops))
         ELSE SelectionsOf(Tail(ops))

\* the maximal same-kind selection runs of a chain, in order, each as
\* (name, left-to-right union of the members' indexers)
RECURSIVE RunsOf(_, _)
RunsOf(ops, acc) ==
    IF Len(ops) = 0 THEN acc
    ELSE LET op == Head(ops)
             n == Len(acc)
         IN  IF op.name \notin SELECTIONS THEN
                 RunsOf(Tail(ops), acc \o <<[name |-> "", idx |-> EmptyDict]>>)
             ELSE IF n > 0 /\ acc[n].name = op.name THEN
                 RunsOf(Tail(ops),
                        [acc EXCEPT ![n].idx =
                            [k \in Keys |-> IF SelIndexer(op)[k] # Missing
                                            THEN SelIndexer(op)[k] ELSE @[k]]])
             ELSE RunsOf(Tail(ops),
                         acc \o <<[name |-> op.name, idx |-> SelIndexer(op)]>>)

Runs(ops) == SelectSeq(RunsOf(ops, <<>>), LAMBDA r : r.name # "")

\* C1: on every chain of isel, sel and mean/sum/prod, replaying the optimized
\* chain has the same outcome as replaying the recorded chain: both fail, or
\* both succeed with equal results.
C1_ReplayEquivalent ==
    (Optimized /\ \A i \in 1..Len(chain) :
                     chain[i].name \in {"isel", "sel", "mean", "sum", "prod"})
    => SameOutcome(Replay(out, BaseDs), Replay(chain, BaseDs))

\* k >= 1 reductions mean/sum/prod given with a dim keyword, then one isel
\* given with keywords on axes none of them removes
RedsThenSel(ops) ==
    LET n == Len(ops)
    IN  /\ n >= 2
        /\ ops[n].name = "isel" /\ ops[n].args = <<>>
        /\ \A m \in 1..(n - 1) :
              /\ ops[m].name \in {"mean", "sum", "prod"}
              /\ ops[m].args = <<>> /\ ops[m].kwargs["dim"] # Missing
              /\ RemovedAxes(ops[m]) \cap KeysOf(SelIndexer(ops[n])) = {}

\* C2: k >= 1 consecutive reductions followed by one selection on axes none
\* of them removes optimize to the selection first, then the k reductions in
\* their original order.
C2_SelectionHoistedFirst ==
    (Optimized /\ RedsThenSel(chain))
    => /\ Len(out) = Len(chain)
       /\ out[1].name = "isel"
       /\ SelIndexer(out[1]) = SelIndexer(chain[Len(chain)])
       /\ \A m \in 1..(Len(chain) - 1) : out[m + 1] = chain[m]

\* C3: _optimize_ops(_optimize_ops(c)) = _optimize_ops(c) as operation lists.
C3_Idempotent == (pc = "reoptimized") => (out2 = out)

\* C4: each maximal run of consecutive same-kind selections of the input is
\* exactly one selection of the output, carrying the left-to-right union of
\* the run members' indexers.
C4_RunsCollapse == Optimized => (SelectionsOf(out) = Runs(chain))

\* C5: a reduction immediately followed by a selection whose indexer axes
\* (positional mapping merged with keywords) meet the reduction's removed axes
\* is emitted, followed by that selection with its full indexer.
C5_ConflictKeepsOrder ==
    Optimized =>
    \A i \in 1..(Len(chain) - 1) :
        (/\ chain[i].name \in AGGREGATIONS
         /\ chain[i + 1].name \in SELECTIONS
         /\ RemovedAxes(chain[i]) \cap KeysOf(SelIndexer(chain[i + 1])) # {})
        => \E p \in 1..(Len(out) - 1) :
              /\ out[p] = chain[i]
              /\ out[p + 1].name = chain[i + 1].name
              /\ KeysOf(SelIndexer(chain[i + 1]))
                    \subseteq KeysOf(SelIndexer(out[p + 1]))

\* no two adjacent selections of the same kind, no reduction immediately
\* followed by a selection
Optimal(ops) ==
    \A i \in 1..(Len(ops) - 1) :
        /\ ~(ops[i].name \in SELECTIONS /\ ops[i + 1].name = ops[i].name)
        /\ ~(ops[i].name \in AGGREGATIONS /\ ops[i + 1].name \in SELECTIONS)

\* C10 as stated: an already-optimal chain is returned with every operation's
\* name, positional args and keyword args unchanged.
C10_StableAsStated == (Optimized /\ Optimal(chain)) => (out = chain)

\* C10 amended: an already-optimal chain is returned with the same operations
\* in the same order; every operation other than a selection is unchanged,
\* every selection keeps its name and indexer and is in normal form (one
\* positional mapping, no keywords).
C10_StableUpToNormalForm ==
    (Optimized /\ Optimal(chain))
    => /\ Len(out) = Len(chain)
       /\ \A i \in 1..Len(chain) :
             IF chain[i].name \in SELECTIONS
             THEN out[i] = Normal(chain[i].name, SelIndexer(chain[i]))
             ELSE out[i] = chain[i]

\* the chain isel(time=0), mean(dim="lat"), mean(dim="lon") has been optimized
C10_Witness ==
    /\ Optimized
    /\ chain = <<IselKw("time", "0"), RedKw("mean", "lat"), RedKw("mean", "lon")>>
    /\ out = <<IselPos("time", "0"), RedKw("mean", "lat"), RedKw("mean", "lon")>>

(***************************************************************************)
(* Notions the claims about the expression rewriter are stated in.         *)
(***************************************************************************)
\* the axes a call names as the values of its arguments, quotes removed
DimsOf(call) == {a.value.body : a \in Range(call.args)}

\* the keyword names of a call
KeywordsOf(call) ==
    {a.keyword : a \in {x \in Range(call.args) : x.keyword # Missing}}

Rewritten == cpc = "done"

\* C6: when a sel/isel call follows one or more mean calls and one of its
\* keywords names the dim of any of those means (adjacent or separated from
\* the selection only by further means), the rewrite raises
\* InvalidExpressionError and returns no tree.
C6_FailFastOnAnyEarlierMean ==
    Rewritten =>
    \A j \in 1..Len(expr) : \A i \in 1..(j - 1) :
        (/\ expr[j].attr \in SELECTIONS
         /\ \A m \in i..(j - 1) : expr[m].attr = "mean"
         /\ DimsOf(expr[i]) \cap KeywordsOf(expr[j]) # {})
        => ~result.ok

\* ds.mean(dim="lat").mean(dim="lon").isel(lat=0) has been rejected: the
\* conflict is with the mean that is not adjacent to the selection
C6_Witness ==
    /\ Rewritten
    /\ expr = <<DimCall("mean", "\"", "lat"), DimCall("mean", "\"", "lon"),
                SelCall("isel", "lat", "0")>>
    /\ ~result.ok

\* k >= 1 mean calls, then one sel/isel call on axes none of them names
MeansThenSel(e) ==
    LET n == Len(e)
    IN  /\ n >= 2
        /\ e[n].attr \in SELECTIONS
        /\ \A m \in 1..(n - 1) :
              /\ e[m].attr = "mean"
              /\ DimsOf(e[m]) \cap KeywordsOf(e[n]) = {}

\* C7: base.mean(d1)...mean(dk).S(kwargs) with the selection's axes disjoint
\* from d1..dk is rewritten to base.S(kwargs).mean(d1)...mean(dk); and every
\* tree the rewrite returns has no mean call immediately followed by a
\* sel/isel call.
C7_SelectionHoistedPastAllMeans ==
    Rewritten =>
    /\ MeansThenSel(expr) =>
          /\ result.ok
          /\ result.tree = <<expr[Len(expr)]>> \o SubSeq(expr, 1, Len(expr) - 1)
    /\ result.ok =>
          \A i \in 1..(Len(result.tree) - 1) :
              ~(/\ result.tree[i].attr = "mean"
                /\ result.tree[i + 1].attr \in SELECTIONS)

\* ds.mean(dim="lat").mean(dim="lon").isel(time=..) has been rewritten to
\* ds.isel(time=..).mean(dim="lat").mean(dim="lon")
C7_Witness ==
    /\ Rewritten
    /\ expr = <<DimCall("mean", "\"", "lat"), DimCall("mean", "\"", "lon"),
                SelCall("isel", "time", "slice(0, 3)")>>
    /\ result = Returned(<<SelCall("isel", "time", "slice(0, 3)"),
                           DimCall("mean", "\"", "lat"),
                           DimCall("mean", "\"", "lon")>>)

\* C8: ds.mean(dim="lat").sum(dim="level").isel(time=slice(0, 3)).mean(dim="lon")
\* is rewritten with the isel before both the mean over lat and the sum over
\* level, the mean over lon staying last.
C8_MixedPushdown ==
    (/\ Rewritten
     /\ expr = <<DimCall("mean", "\"", "lat"), DimCall("sum", "\"", "level"),
                 SelCall("isel", "time", "slice(0, 3)"),
                 DimCall("mean", "\"", "lon")>>)
    => result = Returned(<<SelCall("isel", "time", "slice(0, 3)"),
                           DimCall("mean", "\"", "lat"),
                           DimCall("sum", "\"", "level"),
                           DimCall("mean", "\"", "lon")>>)

(***************************************************************************)
(* Proxy immutability.                                                     *)
(***************************************************************************)
\* C9: every proxy's operation list is the list it had when it was created,
\* no two proxies share a list, and the list of a proxy returned by a
\* recording call is the receiver's list plus exactly the recorded operation;
\* compute(), persist() and realize() change no proxy's list.
C9_ProxiesImmutable ==
    \A p \in 1..Len(proxies) :
        /\ lists[proxies[p].ops] = proxies[p].made
        /\ \A q \in 1..Len(proxies) : q # p => proxies[q].ops # proxies[p].ops
        /\ proxies[p].parent # 0 =>
              /\ proxies[p].made
                    = Append(proxies[proxies[p].parent].made, proxies[p].op)
              /\ lists[proxies[p].ops]
                    = Append(lists[proxies[proxies[p].parent].ops], proxies[p].op)

\* one receiver has recorded two different calls, and a proxy with a pushed
\* selection has been computed
C9_Witness ==
    /\ \E p, q \in 1..Len(proxies) :
          /\ p # q
          /\ proxies[p].parent = proxies[q].parent
          /\ proxies[p].parent # 0
          /\ Len(lists[proxies[proxies[p].parent].ops]) = 1
    /\ realized.via = "compute"
    /\ realized.value.ok
    /\ realized.value.hist # <<>>
    /\ realized.value.ipicked # EmptyDict

====
